---- MODULE Spec2Model ----
(***************************************************************************)
(* Model of src/src/main_new.c: the multi-NUS central bridge.  A serial    *)
(* line (Zephyr async UART) is bridged to several Nordic UART Service      *)
(* peers.  The registry of peers is the bt_conn_ctx library instance       *)
(* conns_ctx_lib; the router is multi_nus_send; peer data is relayed to    *)
(* the serial line by ble_data_received and the UART callback uart_cb.     *)
(***************************************************************************)
EXTENDS Integers, Sequences, FiniteSets, TLC

\* ------------------------------------------------------------- constants
UART_BUF_SIZE == 20
ROUTED_MESSAGE_CHAR == 42
BROADCAST_INDEX == 99
CR == 13
LF == 10

\* ---------------------------------------------------------------- bounds
\* CONFIG_BT_MAX_CONN: slots of conns_ctx_lib and connections of the stack.
MaxConn == 2
\* Bytes that lie behind the two-byte array str and that atoi may read.
GarbageLen == 1
\* Receive frames the heap can hold at once.
HeapRx == 3
\* Bytes the serial line delivers in one run, and bytes that can arrive
\* between a UART_RX_RDY and the uart_rx_disable its handler calls.
MaxRxBytes == 21
MaxFlush == 1
\* Frames the receive side hands to the main loop in one run.
MaxRxFrames == 2

Slots == 0..(MaxConn - 1)
Conns == 1..MaxConn
\* Connections the stack can report, one more than the registry holds.
ConnsOver == 1..(MaxConn + 1)
NoConn == 0
Contexts == {"main", "cb"}

VARIABLES
  ctx,        \* conns_ctx_lib: slot -> connection handle, NoConn when free
  peer_id,    \* history: the id each connection got when it connected
  id_msg,     \* history: the id message sent to each connection, <<>> if none
  null_ctx,   \* connected: what became of the use of a NULL context
  sem,        \* nus_write_sem: 0..1
  inflight,   \* per slot: the write accepted by bt_nus_client_send
  pc,         \* per calling context: position in its code
  rt,         \* per calling context: locals of multi_nus_send
  rxd,        \* ble_data_received: the data of the call
  pos,        \* ble_data_received: pos
  tx,         \* ble_data_received: the frame tx of this iteration
  oom,        \* ble_data_received: k_malloc returned NULL in this call
  call_frames,\* history: frames built by the call, in the order built
  cb_sends,   \* history: peer sends issued during the call
  built,      \* history: every frame built by ble_data_received, in order
  uart_tx_buf,       \* the frame the UART is transmitting, NoFrame when idle
  fifo_uart_tx_data, \* frames waiting for the UART
  wire,       \* history: frames handed to the serial line, in order
  aborted_buf,\* uart_cb: static aborted_buf
  aborted_len,\* uart_cb: static aborted_len
  tx_off,     \* UART driver: offset in the frame where the running transfer began
  line,       \* history: the bytes each transfer put on the serial line
  live,       \* frames allocated with k_malloc and not yet freed
  rxf,        \* receive frames: what the driver wrote, buf->len, allocated or not
  main_buf,   \* main: the frame k_fifo_get returned
  fifo_uart_rx_data, \* frames queued for the main loop
  drv,        \* UART driver, receive side: enabled, current and next buffer
  evq,        \* events the driver has raised and uart_cb has not yet handled
  current_buf,\* uart_cb: static current_buf
  buf_release,\* uart_cb: static buf_release
  uart_work,  \* uart_work is submitted
  delivered,  \* history: bytes reported by UART_RX_RDY, in order
  pushed      \* history: frames put on fifo_uart_rx_data, as they were then

regVars == <<ctx, peer_id, id_msg, null_ctx>>
rxVars == <<rxf, fifo_uart_rx_data, drv, evq, current_buf, buf_release, uart_work,
            delivered, pushed>>
peerVars == <<rxd, pos, tx, oom, call_frames, cb_sends, built>>
uartTxVars == <<uart_tx_buf, fifo_uart_tx_data, wire, aborted_buf, aborted_len, live,
                tx_off, line>>
vars == <<regVars, sem, inflight, pc, rt, peerVars, uartTxVars, main_buf, rxVars>>

\* ---------------------------------------------------------- the registry
\* bt_conn_ctx_count: the number of allocated contexts.
bt_conn_ctx_count(c) == Cardinality({s \in Slots : c[s] # NoConn})

\* bt_conn_ctx_get_by_id: the context stored at index id, if it is in use.
bt_conn_ctx_get_by_id(c, id) ==
  IF id \in Slots /\ c[id] # NoConn THEN id ELSE -1

FreeSlots(c) == {s \in Slots : c[s] = NoConn}
Min(S) == CHOOSE x \in S : \A y \in S : x <= y

\* bt_conn_ctx_alloc: the first free entry takes the connection.
bt_conn_ctx_alloc(c, conn) ==
  IF FreeSlots(c) = {} THEN c ELSE [c EXCEPT ![Min(FreeSlots(c))] = conn]

\* bt_conn_ctx_free: the entry of the connection is cleared.
bt_conn_ctx_free(c, conn) == [s \in Slots |-> IF c[s] = conn THEN NoConn ELSE c[s]]

Connected(c) == {c[s] : s \in {t \in Slots : c[t] # NoConn}}
IdOf(c, conn) == CHOOSE s \in Slots : c[s] = conn

\* -------------------------------------------------------------- atoi
IsSpace(b) == b \in {32, 9, 10, 11, 12, 13}
IsDigit(b) == b \in 48..57

RECURSIVE SkipSpace(_)
SkipSpace(s) ==
  IF s # <<>> /\ IsSpace(Head(s)) THEN SkipSpace(Tail(s)) ELSE s

RECURSIVE DigitsVal(_, _)
DigitsVal(s, acc) ==
  IF s # <<>> /\ IsDigit(Head(s))
  THEN DigitsVal(Tail(s), acc * 10 + (Head(s) - 48))
  ELSE acc

\* atoi of the bytes s; the end of s stands for the first NUL.
atoi(s) ==
  LET t == SkipSpace(s) IN
  IF t # <<>> /\ Head(t) = 45 THEN 0 - DigitsVal(Tail(t), 0)
  ELSE IF t # <<>> /\ Head(t) = 43 THEN DigitsVal(Tail(t), 0)
  ELSE DigitsVal(t, 0)

\* ------------------------------------------------------- multi_nus_send
\* Bytes the code may read that the program never wrote: the bytes of a
\* frame behind its length (k_malloc does not clear) and the stack bytes
\* behind char str[2], which atoi reads up to the first NUL.
StaleBytes == {0, 48, 57}
RECURSIVE SeqsUpTo(_, _)
SeqsUpTo(S, n) ==
  IF n = 0 THEN {<<>>}
  ELSE SeqsUpTo(S, n - 1) \cup
       {Append(q, b) : q \in {t \in SeqsUpTo(S, n - 1) : Len(t) = n - 1}, b \in S}
GarbageTails == SeqsUpTo({48, 49, 57}, GarbageLen)

\* The unwritten bytes one call can see: byte 0 of a frame of length 0,
\* bytes 1 and 2 of a routed frame shorter than that, and the bytes after str.
Junk == [b0 : {0, ROUTED_MESSAGE_CHAR}, b1 : StaleBytes, b2 : StaleBytes,
         tail : GarbageTails]
\* message[0]
Byte0(buf, j) == IF Len(buf) >= 1 THEN buf[1] ELSE j.b0
JunkFor(buf) ==
  {j \in Junk :
     /\ (Len(buf) >= 1 => j.b0 = 0)
     /\ (Byte0(buf, j) # ROUTED_MESSAGE_CHAR => j.tail = <<>>)
     /\ (Len(buf) >= 2 \/ Byte0(buf, j) # ROUTED_MESSAGE_CHAR => j.b1 = 0)
     /\ (Len(buf) >= 3 \/ Byte0(buf, j) # ROUTED_MESSAGE_CHAR => j.b2 = 0)}

\* str[0] = message[1]; str[1] = message[2]; then what follows str in memory.
StrOf(buf, j) ==
  << IF Len(buf) >= 2 THEN buf[2] ELSE j.b1,
     IF Len(buf) >= 3 THEN buf[3] ELSE j.b2 >> \o j.tail

\* Lines 91-124: the parse of the frame into destination, offset and length.
multi_nus_send_parse(buf, num, j) ==
  IF Byte0(buf, j) = ROUTED_MESSAGE_CHAR
  THEN LET nus_index == atoi(StrOf(buf, j)) IN
       IF nus_index >= 0 /\ nus_index < num
       THEN [broadcast |-> FALSE, nus_index |-> nus_index,
             message |-> 3, length |-> Len(buf) - 3]
       ELSE IF nus_index = BROADCAST_INDEX
       THEN [broadcast |-> TRUE, nus_index |-> nus_index,
             message |-> 3, length |-> Len(buf) - 3]
       ELSE [broadcast |-> TRUE, nus_index |-> nus_index,
             message |-> 0, length |-> Len(buf)]
  ELSE [broadcast |-> TRUE, nus_index |-> 0, message |-> 0, length |-> Len(buf)]

NoCall ==
  [buf |-> <<>>, broadcast |-> TRUE, nus_index |-> 0, message |-> 0, length |-> 0,
   num_nus_conns |-> 0, i |-> 0, done |-> FALSE, sends |-> <<>>,
   reg0 |-> [s \in Slots |-> NoConn], stable |-> TRUE, target |-> -1,
   accepted |-> FALSE]

\* Entry of multi_nus_send in context r with frame buf.
multi_nus_send_enter(r, buf, j) ==
  LET num == bt_conn_ctx_count(ctx)
      p   == multi_nus_send_parse(buf, num, j) IN
  rt' = [rt EXCEPT ![r] =
           [NoCall EXCEPT !.buf = buf, !.broadcast = p.broadcast,
                          !.nus_index = p.nus_index, !.message = p.message,
                          !.length = p.length, !.num_nus_conns = num,
                          !.reg0 = ctx]]

\* The context the next bt_conn_ctx_get_by_id of the call returns, -1 for NULL.
Lookup(r) ==
  IF rt[r].broadcast THEN bt_conn_ctx_get_by_id(ctx, rt[r].i)
  ELSE bt_conn_ctx_get_by_id(ctx, rt[r].nus_index)

LoopDone(r) ==
  \/ rt[r].done
  \/ rt[r].broadcast /\ rt[r].i >= rt[r].num_nus_conns

\* bt_nus_client_send takes the length as uint16_t.
U16(n) == n % 65536
SendRec(r, id, ok) ==
  [id |-> id, conn |-> ctx[id], message |-> rt[r].message,
   len |-> U16(rt[r].length), ok |-> ok]

\* Lines 134-151 and 166-182: a context is found, bt_nus_client_send is
\* called and returns 0 (ok) or an error, the context is released.  A write
\* is accepted only when the client has none pending.
multi_nus_send_send(r, ok) ==
  /\ pc[r] = "route"
  /\ ~LoopDone(r)
  /\ Lookup(r) >= 0
  /\ ok => inflight[Lookup(r)] = "none"
  /\ rt' = [rt EXCEPT ![r].sends = IF rt[r].stable
                                     THEN Append(@, SendRec(r, Lookup(r), ok))
                                     ELSE @,
                      ![r].target = Lookup(r),
                      ![r].accepted = ok,
                      ![r].i = IF rt[r].broadcast THEN @ + 1 ELSE @,
                      ![r].done = ~rt[r].broadcast]
  /\ inflight' = IF ok THEN [inflight EXCEPT ![Lookup(r)] = "waiting"] ELSE inflight
  /\ pc' = [pc EXCEPT ![r] = "wait"]
  /\ UNCHANGED <<regVars, sem>>
  /\ UNCHANGED <<peerVars, uartTxVars, main_buf, rxVars>>

\* A loop that would stop at the first index without a context.
multi_nus_send_skip_break(r) ==
  /\ pc[r] = "route"
  /\ ~LoopDone(r)
  /\ rt[r].broadcast
  /\ Lookup(r) < 0
  /\ rt' = [rt EXCEPT ![r].done = TRUE]
  /\ UNCHANGED <<regVars, sem, inflight, pc>>
  /\ UNCHANGED <<peerVars, uartTxVars, main_buf, rxVars>>

\* Line 166: the broadcast loop finds no context at index i and goes on.
multi_nus_send_skip(r) ==
  /\ pc[r] = "route"
  /\ ~LoopDone(r)
  /\ rt[r].broadcast
  /\ Lookup(r) < 0
  /\ rt' = [rt EXCEPT ![r].i = @ + 1]
  /\ UNCHANGED <<regVars, sem, inflight, pc>>
  /\ UNCHANGED <<peerVars, uartTxVars, main_buf, rxVars>>

\* A router that would broadcast when the addressed peer is not found.
multi_nus_send_return_fallback(r) ==
  /\ pc[r] = "route"
  /\ LoopDone(r) \/ (~rt[r].broadcast /\ Lookup(r) < 0)
  /\ IF LoopDone(r)
     THEN pc' = [pc EXCEPT ![r] = "ret"] /\ rt' = rt
     ELSE pc' = pc /\ rt' = [rt EXCEPT ![r].broadcast = TRUE]
  /\ UNCHANGED <<regVars, sem, inflight>>
  /\ UNCHANGED <<peerVars, uartTxVars, main_buf, rxVars>>

\* Line 194: the loop is over, or the addressed peer was not found (line 134).
multi_nus_send_return(r) ==
  /\ pc[r] = "route"
  /\ LoopDone(r) \/ (~rt[r].broadcast /\ Lookup(r) < 0)
  /\ pc' = [pc EXCEPT ![r] = "ret"]
  /\ UNCHANGED <<regVars, sem, inflight, rt>>
  /\ UNCHANGED <<peerVars, uartTxVars, main_buf, rxVars>>

\* Lines 152 and 184: k_sem_take(&nus_write_sem, NUS_WRITE_TIMEOUT) succeeds.
k_sem_take_ok(r) ==
  /\ pc[r] = "wait"
  /\ sem = 1
  /\ sem' = 0
  /\ inflight' = IF rt[r].accepted /\ inflight[rt[r].target] = "waiting"
                 THEN [inflight EXCEPT ![rt[r].target] = "taken"]
                 ELSE inflight
  /\ pc' = [pc EXCEPT ![r] = "route"]
  /\ UNCHANGED <<regVars, rt>>
  /\ UNCHANGED <<peerVars, uartTxVars, main_buf, rxVars>>

\* Lines 152 and 184: the wait ends with the timeout.
k_sem_take_timeout(r) ==
  /\ pc[r] = "wait"
  /\ sem = 0
  /\ inflight' = IF rt[r].accepted /\ inflight[rt[r].target] = "waiting"
                 THEN [inflight EXCEPT ![rt[r].target] = "timedout"]
                 ELSE inflight
  /\ pc' = [pc EXCEPT ![r] = "route"]
  /\ UNCHANGED <<regVars, sem, rt>>
  /\ UNCHANGED <<peerVars, uartTxVars, main_buf, rxVars>>

\* Callbacks of the Bluetooth stack run on its one receive thread: none
\* runs while ble_data_received is running there.
BtThreadFree == pc["cb"] = "idle"

\* Lines 71-79: the completion callback of an accepted write.
ble_data_sent(s) ==
  /\ BtThreadFree
  /\ inflight[s] # "none"
  /\ inflight' = [inflight EXCEPT ![s] = "none"]
  /\ sem' = 1
  /\ UNCHANGED <<regVars, pc, rt>>
  /\ UNCHANGED <<peerVars, uartTxVars, main_buf, rxVars>>

\* History only: a call during which the registry changed is marked, and what
\* was recorded about it is dropped.
Unstable ==
  [r \in Contexts |->
     IF pc[r] = "idle" THEN rt[r]
     ELSE [rt[r] EXCEPT !.stable = FALSE, !.sends = <<>>,
                        !.reg0 = [s \in Slots |-> NoConn]]]

\* Lines 555-563: bt_conn_ctx_alloc returned NULL, which is logged, and the
\* handler goes on to memset and bt_nus_client_init through the NULL pointer:
\* the write faults and the system stops, or it has no effect and the
\* handler continues (bt_nus_client_init and gatt_discover then do nothing).
NullCtxOutcomes == {"fault", "ignored"}
Halted == null_ctx = "fault"

\* Lines 516-579: a connection is established; it gets a context.
connected(conn) ==
  /\ BtThreadFree
  /\ ~Halted
  /\ conn \notin Connected(ctx)
  /\ ctx' = bt_conn_ctx_alloc(ctx, conn)
  /\ peer_id' = IF FreeSlots(ctx) = {} THEN peer_id
                ELSE [peer_id EXCEPT ![conn] = Min(FreeSlots(ctx))]
  /\ id_msg' = [id_msg EXCEPT ![conn] = <<>>]
  /\ IF FreeSlots(ctx) = {} THEN null_ctx' \in NullCtxOutcomes
                            ELSE null_ctx' = null_ctx
  /\ rt' = Unstable
  /\ UNCHANGED <<sem, inflight, pc>>
  /\ UNCHANGED <<peerVars, uartTxVars, main_buf, rxVars>>

\* Lines 581-606: a connection ends; its context is freed.
disconnected(conn) ==
  /\ BtThreadFree
  /\ ~Halted
  /\ conn \in Connected(ctx)
  /\ ctx' = bt_conn_ctx_free(ctx, conn)
  /\ peer_id' = [peer_id EXCEPT ![conn] = -1]
  /\ id_msg' = [id_msg EXCEPT ![conn] = <<>>]
  /\ rt' = Unstable
  /\ UNCHANGED <<null_ctx, sem, inflight, pc>>
  /\ UNCHANGED <<peerVars, uartTxVars, main_buf, rxVars>>

\* Line 443: size_t nus_index = 99, kept when the loop finds nothing.
nus_index_unset == 99

\* Lines 442-457: the index discovery_complete finds for the client nus.
discovery_index(c, conn) ==
  LET found == {i \in Slots : i < bt_conn_ctx_count(c) /\ c[i] = conn}
  IN  IF found = {} THEN nus_index_unset ELSE Min(found)

\* Lines 459-462: sprintf(message, "%d", nus_index); message[2] = '\r'.
id_message(n) ==
  IF n < 10 THEN <<48 + n, 0, CR>> ELSE <<48 + (n \div 10), 48 + (n % 10), CR>>

\* Lines 412-471: discovery of the peer's service completed; the peer is
\* sent its id.  The write is accepted when the client has none pending.
discovery_complete(conn) ==
  /\ BtThreadFree
  /\ ~Halted
  /\ conn \in Connected(ctx)
  /\ id_msg[conn] = <<>>
  /\ id_msg' = [id_msg EXCEPT ![conn] = id_message(discovery_index(ctx, conn))]
  /\ inflight' = IF inflight[IdOf(ctx, conn)] = "none"
                 THEN [inflight EXCEPT ![IdOf(ctx, conn)] = "idmsg"]
                 ELSE inflight
  /\ UNCHANGED <<ctx, peer_id, null_ctx, sem, pc, rt>>
  /\ UNCHANGED <<peerVars, uartTxVars, main_buf, rxVars>>

\* ------------------------------------------------------------ main loop
\* Frames the serial side queues: ended by a terminator.
IdDigits == {48, 49, 57}
SerialFrames ==
  {<<104, CR>>, <<104, 105, LF>>, <<ROUTED_MESSAGE_CHAR, CR>>} \cup
  {<<ROUTED_MESSAGE_CHAR, d1, d2>> \o p :
     d1 \in IdDigits, d2 \in IdDigits, p \in {<<104, CR>>}}

\* k_malloc of a receive frame: a frame not in use, 0 when there is none.
RxIds == 1..HeapRx
NoRxFrame == [data |-> <<>>, len |-> 0, live |-> FALSE, puts |-> 0]
DrvOff == [on |-> FALSE, cur |-> 0, next |-> 0]
RxFree == {f \in RxIds : ~rxf[f].live}
k_malloc_rx == IF RxFree = {} THEN 0 ELSE Min(RxFree)
\* The bytes of a frame as its length field gives them.
FrameBytes(f) ==
  SubSeq(rxf[f].data, 1, IF rxf[f].len > Len(rxf[f].data) THEN Len(rxf[f].data)
                         ELSE rxf[f].len)

\* Lines 293-308 seen from the router: a frame ended by a terminator has
\* been received and put on fifo_uart_rx_data.
serial_frame(buf) ==
  /\ pc["main"] = "idle"
  /\ fifo_uart_rx_data = <<>>
  /\ k_malloc_rx # 0
  /\ rxf' = [rxf EXCEPT ![k_malloc_rx] = [data |-> buf, len |-> Len(buf), live |-> TRUE, puts |-> 1]]
  /\ fifo_uart_rx_data' = <<k_malloc_rx>>
  /\ UNCHANGED <<regVars, sem, inflight, pc, rt, peerVars, uartTxVars, main_buf>>
  /\ UNCHANGED <<drv, evq, current_buf, buf_release, uart_work, delivered, pushed>>

\* Lines 799-804: k_fifo_get returns a frame and multi_nus_send is entered.
main_get(j) ==
  /\ pc["main"] = "idle"
  /\ fifo_uart_rx_data # <<>>
  /\ j \in JunkFor(FrameBytes(Head(fifo_uart_rx_data)))
  /\ main_buf' = Head(fifo_uart_rx_data)
  /\ fifo_uart_rx_data' = Tail(fifo_uart_rx_data)
  /\ multi_nus_send_enter("main", FrameBytes(Head(fifo_uart_rx_data)), j)
  /\ pc' = [pc EXCEPT !["main"] = "route"]
  /\ UNCHANGED <<regVars, sem, inflight, peerVars, uartTxVars>>
  /\ UNCHANGED <<rxf, drv, evq, current_buf, buf_release, uart_work, delivered, pushed>>

\* Line 805: k_free(buf) after multi_nus_send returned.
main_free ==
  /\ pc["main"] = "ret"
  /\ pc' = [pc EXCEPT !["main"] = "idle"]
  /\ rt' = [rt EXCEPT !["main"] = NoCall]
  /\ rxf' = [rxf EXCEPT ![main_buf].live = FALSE]
  /\ main_buf' = 0
  /\ UNCHANGED <<regVars, sem, inflight, peerVars, uartTxVars>>
  /\ UNCHANGED <<fifo_uart_rx_data, drv, evq, current_buf, buf_release, uart_work,
                 delivered, pushed>>


\* ------------------------------------------------------ uart_cb: RX side
\* The driver follows the Zephyr asynchronous UART API: UART_RX_RDY reports
\* new bytes of the current buffer; a full buffer is released and the next
\* one, if any, taken, else reception is disabled; uart_rx_disable reports
\* pending bytes, releases every buffer and then reports UART_RX_DISABLED.
Ev(type, buf, bytes) == [type |-> type, buf |-> buf, bytes |-> bytes]
RECURSIVE PendingLen(_)
PendingLen(q) == IF q = <<>> THEN 0 ELSE Len(Head(q).bytes) + PendingLen(Tail(q))
\* k bytes of the serial stream, the last one a CR when term.
RxBytes(k, term) ==
  [i \in 1..k |-> IF i = k /\ term THEN CR
                  ELSE 97 + ((Len(delivered) + PendingLen(evq) + i) % 7)]
RxChunkSizes == {1, UART_BUF_SIZE - 1, UART_BUF_SIZE}

\* The line delivers k bytes into the current buffer and the driver raises
\* UART_RX_RDY; a buffer that is full is released and replaced.  A short run
\* of bytes without terminator is taken only at the start of a buffer.
uart_rx_chunk(k, term) ==
  /\ drv.on
  /\ evq = <<>>
  /\ Len(rxf[drv.cur].data) + k <= UART_BUF_SIZE
  /\ Len(delivered) + k <= MaxRxBytes
  /\ Len(pushed) < MaxRxFrames
  /\ (~term /\ k < UART_BUF_SIZE - 1) => rxf[drv.cur].data = <<>>
  /\ LET full == Len(rxf[drv.cur].data) + k = UART_BUF_SIZE
         b    == RxBytes(k, term)
     IN  /\ rxf' = [rxf EXCEPT ![drv.cur].data = @ \o b]
         /\ evq' = <<Ev("RX_RDY", drv.cur, b)>> \o
                   (IF ~full THEN <<>>
                    ELSE <<Ev("RX_BUF_RELEASED", drv.cur, <<>>),
                           IF drv.next # 0 THEN Ev("RX_BUF_REQUEST", 0, <<>>)
                           ELSE Ev("RX_DISABLED", 0, <<>>)>>)
         /\ drv' = IF ~full THEN drv
                   ELSE IF drv.next # 0 THEN [on |-> TRUE, cur |-> drv.next, next |-> 0]
                   ELSE DrvOff
  /\ UNCHANGED <<regVars, sem, inflight, pc, rt, peerVars, uartTxVars, main_buf>>
  /\ UNCHANGED <<fifo_uart_rx_data, current_buf, buf_release, uart_work, delivered, pushed>>

\* evt->data.rx.buf[buf->len - 1]; 0 where the driver has written nothing.
LastByte(data, len) == IF len \in 1..Len(data) THEN data[len] ELSE 0

\* uart_rx_disable(uart), called while the driver receives into drv.cur:
\* the events it raises, fl bytes having arrived since the last report.
DisableEvents(fl) ==
  (IF fl = <<>> THEN <<>> ELSE <<Ev("RX_RDY", drv.cur, fl)>>) \o
  <<Ev("RX_BUF_RELEASED", drv.cur, <<>>)>> \o
  (IF drv.next # 0 THEN <<Ev("RX_BUF_RELEASED", drv.next, <<>>)>> ELSE <<>>) \o
  <<Ev("RX_DISABLED", 0, <<>>)>>

\* Lines 293-308: UART_RX_RDY.
uart_cb_RX_RDY(k, term) ==
  /\ evq # <<>>
  /\ Head(evq).type = "RX_RDY"
  /\ LET e      == Head(evq)
         buf    == e.buf
         newlen == rxf[buf].len + Len(e.bytes)
         isfull == newlen = UART_BUF_SIZE
         isterm == LastByte(rxf[buf].data, newlen) \in {LF, CR}
         put    == isfull \/ isterm
         stop   == ~isfull /\ isterm /\ drv.on
         fl     == IF stop THEN RxBytes(k, term) ELSE <<>>
     IN  /\ IF stop THEN /\ Len(rxf[drv.cur].data) + k <= UART_BUF_SIZE
                          /\ k > 0 => Len(pushed) + 1 < MaxRxFrames
                     ELSE k = 0
         /\ Len(delivered) + PendingLen(evq) + k <= MaxRxBytes
         /\ term => k > 0
         /\ delivered' = delivered \o e.bytes
         /\ rxf' = [f \in RxIds |->
                      [rxf[f] EXCEPT
                         !.len  = IF f = buf THEN newlen ELSE @,
                         !.puts = IF f = buf /\ put THEN @ + 1 ELSE @,
                         !.data = IF stop /\ f = drv.cur THEN @ \o fl ELSE @]]
         /\ fifo_uart_rx_data' = IF put THEN Append(fifo_uart_rx_data, buf)
                                 ELSE fifo_uart_rx_data
         /\ pushed' = IF put THEN Append(pushed, SubSeq(rxf[buf].data, 1, newlen))
                      ELSE pushed
         /\ buf_release' = (~isfull /\ isterm)
         /\ current_buf' = IF ~isfull /\ isterm THEN buf ELSE current_buf
         /\ evq' = IF stop THEN Tail(evq) \o DisableEvents(fl) ELSE Tail(evq)
         /\ drv' = IF stop THEN DrvOff ELSE drv
  /\ UNCHANGED <<regVars, sem, inflight, pc, rt, peerVars, uartTxVars, main_buf>>
  /\ UNCHANGED uart_work

\* uart_rx_enable(uart, buf->data, ...): reception starts in the frame and
\* the driver asks for the next buffer.
\* Lines 310-324: UART_RX_DISABLED.
uart_cb_RX_DISABLED ==
  /\ evq # <<>>
  /\ Head(evq).type = "RX_DISABLED"
  /\ IF k_malloc_rx # 0
     THEN /\ rxf' = [rxf EXCEPT ![k_malloc_rx] = [NoRxFrame EXCEPT !.live = TRUE]]
          /\ drv' = [on |-> TRUE, cur |-> k_malloc_rx, next |-> 0]
          /\ evq' = Tail(evq) \o <<Ev("RX_BUF_REQUEST", 0, <<>>)>>
          /\ UNCHANGED uart_work
     ELSE /\ uart_work' = TRUE
          /\ evq' = Tail(evq)
          /\ UNCHANGED <<rxf, drv>>
  /\ UNCHANGED <<regVars, sem, inflight, pc, rt, peerVars, uartTxVars, main_buf>>
  /\ UNCHANGED <<fifo_uart_rx_data, current_buf, buf_release, delivered, pushed>>

\* Lines 326-335: UART_RX_BUF_REQUEST.
uart_cb_RX_BUF_REQUEST ==
  /\ evq # <<>>
  /\ Head(evq).type = "RX_BUF_REQUEST"
  /\ IF k_malloc_rx # 0
     THEN /\ rxf' = [rxf EXCEPT ![k_malloc_rx] = [NoRxFrame EXCEPT !.live = TRUE]]
          /\ drv' = IF drv.on /\ drv.next = 0
                    THEN [drv EXCEPT !.next = k_malloc_rx] ELSE drv
     ELSE UNCHANGED <<rxf, drv>>
  /\ evq' = Tail(evq)
  /\ UNCHANGED <<regVars, sem, inflight, pc, rt, peerVars, uartTxVars, main_buf>>
  /\ UNCHANGED <<fifo_uart_rx_data, current_buf, buf_release, uart_work, delivered, pushed>>

\* Lines 337-346: UART_RX_BUF_RELEASED.
uart_cb_RX_BUF_RELEASED ==
  /\ evq # <<>>
  /\ Head(evq).type = "RX_BUF_RELEASED"
  /\ IF buf_release /\ current_buf # Head(evq).buf
     THEN /\ rxf' = [rxf EXCEPT ![Head(evq).buf].live = FALSE]
          /\ buf_release' = FALSE
          /\ current_buf' = 0
     ELSE UNCHANGED <<rxf, buf_release, current_buf>>
  /\ evq' = Tail(evq)
  /\ UNCHANGED <<regVars, sem, inflight, pc, rt, peerVars, uartTxVars, main_buf>>
  /\ UNCHANGED <<fifo_uart_rx_data, drv, uart_work, delivered, pushed>>

\* uart_work_handler were the work not submitted again when k_malloc fails.
uart_work_handler_noretry ==
  /\ uart_work
  /\ IF k_malloc_rx # 0
     THEN /\ rxf' = [rxf EXCEPT ![k_malloc_rx] = [NoRxFrame EXCEPT !.live = TRUE]]
          /\ drv' = [on |-> TRUE, cur |-> k_malloc_rx, next |-> 0]
          /\ evq' = evq \o <<Ev("RX_BUF_REQUEST", 0, <<>>)>>
     ELSE UNCHANGED <<rxf, drv, evq>>
  /\ uart_work' = FALSE
  /\ UNCHANGED <<regVars, sem, inflight, pc, rt, peerVars, uartTxVars, main_buf>>
  /\ UNCHANGED <<fifo_uart_rx_data, current_buf, buf_release, delivered, pushed>>

\* Lines 367-381: uart_work_handler, the retry after UART_WAIT_FOR_BUF_DELAY.
uart_work_handler ==
  /\ uart_work
  /\ IF k_malloc_rx # 0
     THEN /\ rxf' = [rxf EXCEPT ![k_malloc_rx] = [NoRxFrame EXCEPT !.live = TRUE]]
          /\ drv' = [on |-> TRUE, cur |-> k_malloc_rx, next |-> 0]
          /\ evq' = evq \o <<Ev("RX_BUF_REQUEST", 0, <<>>)>>
          /\ uart_work' = FALSE
     ELSE UNCHANGED <<rxf, drv, evq, uart_work>>
  /\ UNCHANGED <<regVars, sem, inflight, pc, rt, peerVars, uartTxVars, main_buf>>
  /\ UNCHANGED <<fifo_uart_rx_data, current_buf, buf_release, delivered, pushed>>

\* ---------------------------------------------------- ble_data_received
\* A frame: struct uart_data_t, with the order in which it was allocated.
NoFrame == [seq |-> 0, data |-> <<>>]
\* Frames the heap can hold at once, and frames one run builds from peer data.
HeapFrames == 3
MaxBuilt == 4
\* Transfers the UART starts in one run, and the lengths it aborts after.
MaxTransfers == 4
AbortLens == {0, 1, UART_BUF_SIZE - 3}

\* The chunk length were no byte of the buffer kept for the LF.
tx_len_noreserve(len, p) ==
  IF len - p > UART_BUF_SIZE THEN UART_BUF_SIZE ELSE len - p

\* Lines 216-222: tx->len, with one byte of the buffer kept for the LF.
tx_len(len, p) ==
  IF len - p > UART_BUF_SIZE - 1 THEN UART_BUF_SIZE - 1 ELSE len - p

\* Lines 224-234: the bytes of the frame built at pos p, and the new pos.
tx_chunk(data, p) ==
  LET n    == tx_len(Len(data), p)
      body == SubSeq(data, p + 1, p + n)
      np   == p + n
  IN  [data |-> IF np = Len(data) /\ data[Len(data)] = CR
                THEN Append(body, LF) ELSE body,
       pos  |-> np]

\* The bytes one send of multi_nus_send hands over, as far as the frame has them.
Payload(data, s) ==
  SubSeq(data, s.message + 1,
         IF s.message + s.len > Len(data) THEN Len(data) ELSE s.message + s.len)

\* Line 203: the stack calls ble_data_received with data of a connected peer.
ble_data_received(data) ==
  /\ pc["cb"] = "idle"
  /\ Connected(ctx) # {}
  /\ Len(built) + ((Len(data) + UART_BUF_SIZE - 2) \div (UART_BUF_SIZE - 1)) <= MaxBuilt
  /\ rxd' = data
  /\ pos' = 0
  /\ oom' = FALSE
  /\ call_frames' = <<>>
  /\ cb_sends' = <<>>
  /\ pc' = [pc EXCEPT !["cb"] = "loop"]
  /\ UNCHANGED <<regVars, sem, inflight, rt, tx, built, uartTxVars>>
  /\ UNCHANGED <<main_buf, rxVars>>

\* Lines 207-241: one iteration up to the call of uart_tx: k_malloc, the
\* copy, the LF, and the entry of multi_nus_send when data[0] is '*'.
ble_data_received_chunk(j) ==
  /\ pc["cb"] = "loop"
  /\ pos # Len(rxd)
  /\ Cardinality(live) < HeapFrames
  /\ LET c == tx_chunk(rxd, pos)
         f == [seq |-> Len(built) + 1, data |-> c.data]
     IN  /\ tx' = f
         /\ pos' = c.pos
         /\ live' = live \cup {f.seq}
         /\ built' = Append(built, f)
         /\ call_frames' = Append(call_frames, c.data)
         /\ IF rxd[1] = ROUTED_MESSAGE_CHAR
            THEN /\ j \in JunkFor(c.data)
                 /\ multi_nus_send_enter("cb", c.data, j)
                 /\ pc' = [pc EXCEPT !["cb"] = "route"]
            ELSE /\ j \in JunkFor(<<0>>)
                 /\ rt' = rt
                 /\ pc' = [pc EXCEPT !["cb"] = "ret"]
  /\ UNCHANGED <<regVars, sem, inflight, rxd, oom, cb_sends>>
  /\ UNCHANGED <<uart_tx_buf, fifo_uart_tx_data, wire, aborted_buf, aborted_len>>
  /\ UNCHANGED <<tx_off, line>>
  /\ UNCHANGED <<main_buf, rxVars>>

\* Lines 210-213: k_malloc returns NULL and the callback returns.
ble_data_received_nomem ==
  /\ pc["cb"] = "loop"
  /\ pos # Len(rxd)
  /\ Cardinality(live) >= HeapFrames
  /\ oom' = TRUE
  /\ pc' = [pc EXCEPT !["cb"] = "done"]
  /\ UNCHANGED <<regVars, sem, inflight, rt, rxd, pos, tx, call_frames, cb_sends,
                 built, uartTxVars>>
  /\ UNCHANGED <<main_buf, rxVars>>

\* The sends multi_nus_send issued for tx, with the bytes they carried.
SendsOfChunk ==
  IF rxd[1] = ROUTED_MESSAGE_CHAR
  THEN [k \in 1..Len(rt["cb"].sends) |->
          [id |-> rt["cb"].sends[k].id,
           bytes |-> Payload(tx.data, rt["cb"].sends[k])]]
  ELSE <<>>

\* Line 243: uart_tx(uart, tx->data, tx->len, SYS_FOREVER_MS); it fails
\* when the UART is still transmitting.
ble_data_received_uart_tx ==
  /\ pc["cb"] = "ret"
  /\ cb_sends' = cb_sends \o SendsOfChunk
  /\ rt' = [rt EXCEPT !["cb"] = NoCall]
  /\ IF uart_tx_buf = NoFrame
     THEN /\ uart_tx_buf' = tx
          /\ tx_off' = 0
          /\ wire' = Append(wire, tx)
          /\ pc' = [pc EXCEPT !["cb"] = "loop"]
     ELSE /\ UNCHANGED <<uart_tx_buf, wire, tx_off>>
          /\ pc' = [pc EXCEPT !["cb"] = "fifo_put"]
  /\ UNCHANGED <<regVars, sem, inflight, rxd, pos, tx, oom, call_frames, built>>
  /\ UNCHANGED <<fifo_uart_tx_data, aborted_buf, aborted_len, live, line>>
  /\ UNCHANGED <<main_buf, rxVars>>

\* Line 245: k_fifo_put(&fifo_uart_tx_data, tx) after uart_tx failed.
ble_data_received_fifo_put ==
  /\ pc["cb"] = "fifo_put"
  /\ fifo_uart_tx_data' = Append(fifo_uart_tx_data, tx)
  /\ pc' = [pc EXCEPT !["cb"] = "loop"]
  /\ UNCHANGED <<regVars, sem, inflight, rt, peerVars>>
  /\ UNCHANGED <<uart_tx_buf, wire, aborted_buf, aborted_len, live, tx_off, line>>
  /\ UNCHANGED <<main_buf, rxVars>>

\* Lines 207 and 249: pos == len, the loop ends.
ble_data_received_end ==
  /\ pc["cb"] = "loop"
  /\ pos = Len(rxd)
  /\ pc' = [pc EXCEPT !["cb"] = "done"]
  /\ UNCHANGED <<regVars, sem, inflight, rt, peerVars, uartTxVars>>
  /\ UNCHANGED <<main_buf, rxVars>>

\* The callback has returned to the stack.
ble_data_received_return ==
  /\ pc["cb"] = "done"
  /\ pc' = [pc EXCEPT !["cb"] = "idle"]
  /\ rxd' = <<>>
  /\ pos' = 0
  /\ tx' = NoFrame
  /\ oom' = FALSE
  /\ call_frames' = <<>>
  /\ cb_sends' = <<>>
  /\ UNCHANGED <<regVars, sem, inflight, rt, built, uartTxVars>>
  /\ UNCHANGED <<main_buf, rxVars>>

\* ------------------------------------------------------ uart_cb: TX side
\* Lines 263-291: UART_TX_DONE for the frame the UART was transmitting.
\* The frame (or aborted_buf) is freed and the next queued frame is started.
uart_cb_TX_DONE ==
  /\ uart_tx_buf # NoFrame
  /\ line' = Append(line, SubSeq(uart_tx_buf.data, tx_off + 1, Len(uart_tx_buf.data)))
  /\ live' = live \ {IF aborted_buf # NoFrame THEN aborted_buf.seq ELSE uart_tx_buf.seq}
  /\ aborted_buf' = NoFrame
  /\ aborted_len' = 0
  /\ tx_off' = 0
  /\ IF fifo_uart_tx_data = <<>>
     THEN /\ uart_tx_buf' = NoFrame
          /\ UNCHANGED <<fifo_uart_tx_data, wire>>
     ELSE /\ uart_tx_buf' = Head(fifo_uart_tx_data)
          /\ fifo_uart_tx_data' = Tail(fifo_uart_tx_data)
          /\ wire' = Append(wire, Head(fifo_uart_tx_data))
  /\ UNCHANGED <<regVars, sem, inflight, pc, rt, peerVars>>
  /\ UNCHANGED <<main_buf, rxVars>>

\* UART_TX_ABORTED were the offset not accumulated: aborted_len = evt->data.tx.len.
uart_cb_TX_ABORTED_noaccum(k) ==
  /\ uart_tx_buf # NoFrame
  /\ k < Len(uart_tx_buf.data) - tx_off
  /\ Len(line) < MaxTransfers
  /\ line' = Append(line, SubSeq(uart_tx_buf.data, tx_off + 1, tx_off + k))
  /\ aborted_buf' = IF aborted_buf = NoFrame THEN uart_tx_buf ELSE aborted_buf
  /\ aborted_len' = k
  /\ tx_off' = k
  /\ UNCHANGED <<uart_tx_buf, fifo_uart_tx_data, wire, live>>
  /\ UNCHANGED <<regVars, sem, inflight, pc, rt, peerVars>>
  /\ UNCHANGED <<main_buf, rxVars>>

\* Lines 348-360: UART_TX_ABORTED after k bytes of the running transfer, fewer
\* than it had to send.  evt->data.tx.buf is the start of that transfer, the
\* start of the frame at the first abort; the rest is sent from aborted_len.
uart_cb_TX_ABORTED(k) ==
  /\ uart_tx_buf # NoFrame
  /\ k < Len(uart_tx_buf.data) - tx_off
  /\ Len(line) < MaxTransfers
  /\ line' = Append(line, SubSeq(uart_tx_buf.data, tx_off + 1, tx_off + k))
  /\ aborted_buf' = IF aborted_buf = NoFrame THEN uart_tx_buf ELSE aborted_buf
  /\ aborted_len' = aborted_len + k
  /\ tx_off' = aborted_len + k
  /\ UNCHANGED <<uart_tx_buf, fifo_uart_tx_data, wire, live>>
  /\ UNCHANGED <<regVars, sem, inflight, pc, rt, peerVars>>
  /\ UNCHANGED <<main_buf, rxVars>>

\* ------------------------------------------------------- specifications
Init ==
  /\ ctx = [s \in Slots |-> NoConn]
  /\ peer_id = [c \in ConnsOver |-> -1]
  /\ id_msg = [c \in ConnsOver |-> <<>>]
  /\ null_ctx = "none"
  /\ sem = 0
  /\ inflight = [s \in Slots |-> "none"]
  /\ pc = [r \in Contexts |-> "idle"]
  /\ rt = [r \in Contexts |-> NoCall]
  /\ rxd = <<>>
  /\ pos = 0
  /\ tx = NoFrame
  /\ oom = FALSE
  /\ call_frames = <<>>
  /\ cb_sends = <<>>
  /\ built = <<>>
  /\ uart_tx_buf = NoFrame
  /\ fifo_uart_tx_data = <<>>
  /\ wire = <<>>
  /\ aborted_buf = NoFrame
  /\ aborted_len = 0
  /\ live = {}
  /\ tx_off = 0
  /\ line = <<>>
  /\ rxf = [f \in RxIds |-> NoRxFrame]
  /\ main_buf = 0
  /\ fifo_uart_rx_data = <<>>
  /\ drv = DrvOff
  /\ evq = <<>>
  /\ current_buf = 0
  /\ buf_release = FALSE
  /\ uart_work = FALSE
  /\ delivered = <<>>
  /\ pushed = <<>>

\* The router driven by the main loop, with peers coming and going.
NextRoute ==
  \/ \E c \in Conns : connected(c)
  \/ \E c \in Conns : disconnected(c)
  \/ \E buf \in SerialFrames : serial_frame(buf)
  \/ \E j \in Junk : main_get(j)
  \/ \E ok \in BOOLEAN : multi_nus_send_send("main", ok)
  \/ multi_nus_send_skip("main")
  \/ multi_nus_send_return("main")
  \/ k_sem_take_ok("main")
  \/ k_sem_take_timeout("main")
  \/ \E s \in Slots : ble_data_sent(s)
  \/ main_free

SpecRoute == Init /\ [][NextRoute]_vars

\* The dispatch of the router alone: one frame without the marker and one
\* addressed to id 0, with peers coming and going and sends failing.
DispatchFrames == {<<104, CR>>, <<ROUTED_MESSAGE_CHAR, 48, 48, 104, CR>>}
NextDispatch ==
  \/ \E c \in Conns : connected(c)
  \/ \E c \in Conns : disconnected(c)
  \/ \E buf \in DispatchFrames : serial_frame(buf)
  \/ \E j \in Junk : main_get(j)
  \/ \E ok \in BOOLEAN : multi_nus_send_send("main", ok)
  \/ multi_nus_send_skip("main")
  \/ multi_nus_send_return("main")
  \/ k_sem_take_ok("main")
  \/ k_sem_take_timeout("main")
  \/ \E s \in Slots : ble_data_sent(s)
  \/ main_free

SpecDispatch == Init /\ [][NextDispatch]_vars

\* Data a peer sends: byte k is 'a' + k mod 7 between a first and a last byte.
Pattern(n, first, last) ==
  [k \in 1..n |-> IF k = 1 THEN first ELSE IF k = n THEN last ELSE 97 + (k % 7)]
PeerData ==
  { <<104, 105, CR>>,
    <<ROUTED_MESSAGE_CHAR, 48, 48>> \o Pattern(UART_BUF_SIZE + 2, 104, CR),
    <<ROUTED_MESSAGE_CHAR, 57, 57>> \o Pattern(2, 104, CR),
    Pattern(UART_BUF_SIZE, 104, 122) }

\* Peer data relayed to the serial line and routed to other peers.
NextPeer ==
  \/ \E c \in Conns : connected(c)
  \/ \E c \in Conns : disconnected(c)
  \/ \E data \in PeerData : ble_data_received(data)
  \/ \E j \in Junk :
        ble_data_received_chunk(j)
  \/ ble_data_received_nomem
  \/ \E ok \in BOOLEAN : multi_nus_send_send("cb", ok)
  \/ multi_nus_send_skip("cb")
  \/ multi_nus_send_return("cb")
  \/ k_sem_take_ok("cb")
  \/ k_sem_take_timeout("cb")
  \/ \E s \in Slots : ble_data_sent(s)
  \/ ble_data_received_uart_tx
  \/ ble_data_received_fifo_put
  \/ ble_data_received_end
  \/ ble_data_received_return
  \/ uart_cb_TX_DONE

SpecPeer == Init /\ [][NextPeer]_vars

\* The chunking of ble_data_received alone, as a function of its input.
MaxDataLen == 40
ChunkData ==
  {[k \in 1..n |-> IF k = n THEN last
                   ELSE IF k = 1 THEN first
                   ELSE IF k = mid THEN CR ELSE 97 + (k % 7)] :
     n \in 0..MaxDataLen, first \in {104, CR}, last \in {CR, 122},
     mid \in {0, UART_BUF_SIZE - 1}}

InitChunk ==
  /\ ctx = [s \in Slots |-> NoConn]
  /\ peer_id = [c \in ConnsOver |-> -1]
  /\ id_msg = [c \in ConnsOver |-> <<>>]
  /\ null_ctx = "none"
  /\ sem = 0
  /\ inflight = [s \in Slots |-> "none"]
  /\ pc = [r \in Contexts |-> IF r = "cb" THEN "loop" ELSE "idle"]
  /\ rt = [r \in Contexts |-> NoCall]
  /\ rxd \in ChunkData
  /\ pos = 0
  /\ tx = NoFrame
  /\ oom = FALSE
  /\ call_frames = <<>>
  /\ cb_sends = <<>>
  /\ built = <<>>
  /\ uart_tx_buf = NoFrame
  /\ fifo_uart_tx_data = <<>>
  /\ wire = <<>>
  /\ aborted_buf = NoFrame
  /\ aborted_len = 0
  /\ live = {}
  /\ tx_off = 0
  /\ line = <<>>
  /\ rxf = [f \in RxIds |-> NoRxFrame]
  /\ main_buf = 0
  /\ fifo_uart_rx_data = <<>>
  /\ drv = DrvOff
  /\ evq = <<>>
  /\ current_buf = 0
  /\ buf_release = FALSE
  /\ uart_work = FALSE
  /\ delivered = <<>>
  /\ pushed = <<>>

\* Lines 207-234 of one iteration: the frame built at pos, and pos advanced.
chunk_apply ==
  /\ pc["cb"] = "loop"
  /\ pos # Len(rxd)
  /\ call_frames' = Append(call_frames, tx_chunk(rxd, pos).data)
  /\ pos' = tx_chunk(rxd, pos).pos
  /\ UNCHANGED <<regVars, sem, inflight, pc, rt, rxd, tx, oom, cb_sends, built,
                 uartTxVars>>
  /\ UNCHANGED <<main_buf, rxVars>>

SpecChunk == InitChunk /\ [][chunk_apply]_vars

\* The serial receive side with the main loop, no peer connected.
\* Lines 383-410: after uart_init a frame is allocated and reception enabled.
InitRx ==
  /\ ctx = [s \in Slots |-> NoConn]
  /\ peer_id = [c \in ConnsOver |-> -1]
  /\ id_msg = [c \in ConnsOver |-> <<>>]
  /\ null_ctx = "none"
  /\ sem = 0
  /\ inflight = [s \in Slots |-> "none"]
  /\ pc = [r \in Contexts |-> "idle"]
  /\ rt = [r \in Contexts |-> NoCall]
  /\ rxd = <<>>
  /\ pos = 0
  /\ tx = NoFrame
  /\ oom = FALSE
  /\ call_frames = <<>>
  /\ cb_sends = <<>>
  /\ built = <<>>
  /\ uart_tx_buf = NoFrame
  /\ fifo_uart_tx_data = <<>>
  /\ wire = <<>>
  /\ aborted_buf = NoFrame
  /\ aborted_len = 0
  /\ live = {}
  /\ tx_off = 0
  /\ line = <<>>
  /\ rxf = [f \in RxIds |-> IF f = 1 THEN [NoRxFrame EXCEPT !.live = TRUE] ELSE NoRxFrame]
  /\ main_buf = 0
  /\ fifo_uart_rx_data = <<>>
  /\ drv = [on |-> TRUE, cur |-> 1, next |-> 0]
  /\ evq = <<Ev("RX_BUF_REQUEST", 0, <<>>)>>
  /\ current_buf = 0
  /\ buf_release = FALSE
  /\ uart_work = FALSE
  /\ delivered = <<>>
  /\ pushed = <<>>

NextRx ==
  \/ \E k \in RxChunkSizes : \E term \in BOOLEAN : uart_rx_chunk(k, term)
  \/ \E k \in 0..MaxFlush : \E term \in BOOLEAN : uart_cb_RX_RDY(k, term)
  \/ uart_cb_RX_DISABLED
  \/ uart_cb_RX_BUF_REQUEST
  \/ uart_cb_RX_BUF_RELEASED
  \/ uart_work_handler
  \/ \E j \in Junk : main_get(j)
  \/ multi_nus_send_return("main")
  \/ main_free

SpecRx == InitRx /\ [][NextRx]_vars

\* The registry with the handlers that use it, the stack reporting one
\* connection more than the registry holds.
NextReg ==
  \/ \E conn \in ConnsOver : connected(conn)
  \/ \E conn \in ConnsOver : disconnected(conn)
  \/ \E conn \in ConnsOver : discovery_complete(conn)
  \/ \E s \in Slots : ble_data_sent(s)

SpecReg == Init /\ [][NextReg]_vars

\* The same, with what the scheduling guarantees: the driver delivers every
\* event it raised to uart_cb, the system work queue runs uart_work when its
\* delay is over, and the main thread runs when it has something to do.
FairRx ==
  /\ WF_vars(\E k \in 0..MaxFlush : \E term \in BOOLEAN : uart_cb_RX_RDY(k, term))
  /\ WF_vars(uart_cb_RX_DISABLED)
  /\ WF_vars(uart_cb_RX_BUF_REQUEST)
  /\ WF_vars(uart_cb_RX_BUF_RELEASED)
  /\ WF_vars(uart_work_handler)
  /\ WF_vars(\E j \in Junk : main_get(j))
  /\ WF_vars(multi_nus_send_return("main"))
  /\ WF_vars(main_free)

SpecRxFair == SpecRx /\ FairRx

\* The serial transmit side: ble_data_received for data of one peer that is
\* not routed and makes two frames, with UART_TX_DONE and UART_TX_ABORTED.
TxData == {Pattern(UART_BUF_SIZE, 104, CR)}
NextTx ==
  \/ connected(1)
  \/ \E data \in TxData : ble_data_received(data)
  \/ \E j \in Junk : ble_data_received_chunk(j)
  \/ ble_data_received_nomem
  \/ ble_data_received_uart_tx
  \/ ble_data_received_fifo_put
  \/ ble_data_received_end
  \/ ble_data_received_return
  \/ uart_cb_TX_DONE
  \/ \E k \in AbortLens : uart_cb_TX_ABORTED(k)

SpecTx == Init /\ [][NextTx]_vars

\* ---------------------------------------------------- claims: the router
RECURSIVE Ascending(_)
Ascending(S) == IF S = {} THEN <<>> ELSE <<Min(S)>> \o Ascending(S \ {Min(S)})
UsedSlots(c) == {s \in Slots : c[s] # NoConn}

\* A call of multi_nus_send from the main loop has returned, and no peer
\* connected or disconnected while it ran.
Returned == pc["main"] = "ret" /\ rt["main"].stable
Frame == rt["main"].buf
\* What each send of the call was given: peer id, offset in the frame, length.
Issued == [k \in 1..Len(rt["main"].sends) |->
             <<rt["main"].sends[k].id, rt["main"].sends[k].message,
               rt["main"].sends[k].len>>]
\* One send to each connected peer, in ascending id order.
ToEveryPeer(c, off, len) ==
  [k \in 1..Cardinality(UsedSlots(c)) |-> <<Ascending(UsedSlots(c))[k], off, len>>]
HasId(buf) == Len(buf) >= 3 /\ buf[1] = ROUTED_MESSAGE_CHAR
              /\ IsDigit(buf[2]) /\ IsDigit(buf[3])
IdIn(buf) == 10 * (buf[2] - 48) + (buf[3] - 48)

\* C1: a frame whose first byte is not '*' is sent whole (offset 0, its full
\* length) to every peer connected at the call, in ascending peer-id order.
C1_BroadcastToEveryPeer ==
  Returned /\ Frame[1] # ROUTED_MESSAGE_CHAR
    => Issued = ToEveryPeer(rt["main"].reg0, 0, Len(Frame))

\* C2: a frame '*' dd payload with dd in [0, count()) gives exactly one send,
\* to peer dd, of the bytes from offset 3 with length len - 3.
C2_AddressedToOnePeer ==
  Returned /\ HasId(Frame) /\ IdIn(Frame) < bt_conn_ctx_count(rt["main"].reg0)
    => Issued = << <<IdIn(Frame), 3, Len(Frame) - 3>> >>

\* The sends the broadcast loop of lines 162-191 issues for a frame without
\* the marker: the used slots below count(), ascending.
NoMarkerTargets(c) ==
  Ascending({s \in UsedSlots(c) : s < bt_conn_ctx_count(c)})

\* C3: a frame '*' "99" payload is sent to the same peers, in the same order,
\* as a frame without the marker, each send carrying the bytes from offset 3.
C3_SentinelIsBroadcastOfPayload ==
  Returned /\ HasId(Frame) /\ IdIn(Frame) = BROADCAST_INDEX
    => Issued = [k \in 1..Len(NoMarkerTargets(rt["main"].reg0)) |->
                   <<NoMarkerTargets(rt["main"].reg0)[k], 3, Len(Frame) - 3>>]

\* Sends of multi_nus_send that were accepted, whose completion callback has
\* not fired and whose wait has not timed out.
OpenSends == {s \in Slots : inflight[s] \in {"waiting", "taken"}}

\* C4: the router never has two of its sends outstanding at once.
C4_OneOutstandingSend == Cardinality(OpenSends) <= 1

\* C7: the ids of the connected peers are exactly 0 .. count()-1, and a peer
\* keeps the id it got when it connected.
C7_IdsDenseAndStable ==
  /\ UsedSlots(ctx) = 0..(bt_conn_ctx_count(ctx) - 1)
  /\ \A conn \in Connected(ctx) : IdOf(ctx, conn) = peer_id[conn]

\* C10: a frame '*' dd payload with dd neither in [0, count()) nor 99 is sent
\* whole, prefix included, to every connected peer.
C10_UnroutableIsBroadcastOfFrame ==
  Returned /\ HasId(Frame)
           /\ IdIn(Frame) >= bt_conn_ctx_count(rt["main"].reg0)
           /\ IdIn(Frame) # BROADCAST_INDEX
    => Issued = ToEveryPeer(rt["main"].reg0, 0, Len(Frame))

\* ------------------------------------------- claims: ble_data_received
RECURSIVE Flatten(_)
Flatten(ss) == IF ss = <<>> THEN <<>> ELSE Head(ss) \o Flatten(Tail(ss))
FramesData(fs) == [k \in 1..Len(fs) |-> fs[k].data]
EndsWithCR(data) == Len(data) > 0 /\ data[Len(data)] = CR
\* The input bytes each frame of the call carries: all but an appended LF.
InputBytesOf(k) ==
  IF k = Len(call_frames) /\ pos = Len(rxd) /\ EndsWithCR(rxd)
  THEN Len(call_frames[k]) - 1 ELSE Len(call_frames[k])

\* C5: what is written to the serial line is the frames built by
\* ble_data_received in the order built: none early, none twice, none skipped.
C5_SerialOrderIsProductionOrder == wire = SubSeq(built, 1, Len(wire))

\* C6: the frames one call builds are 1..20 bytes long, carry at most 19
\* input bytes each, and concatenate to the input, followed by one LF exactly
\* when the input ends with CR; only the last frame gets the LF.
C6_ChunksConcatenateToInput ==
  /\ \A k \in 1..Len(call_frames) :
       /\ Len(call_frames[k]) >= 1
       /\ Len(call_frames[k]) <= UART_BUF_SIZE
       /\ InputBytesOf(k) <= UART_BUF_SIZE - 1
  /\ Flatten(call_frames) =
       SubSeq(rxd, 1, pos) \o
         (IF pos = Len(rxd) /\ EndsWithCR(rxd) THEN <<LF>> ELSE <<>>)
  /\ pos <= Len(rxd)

\* A CR-ended input of two full chunks is done: the last frame is full.
C6_Witness ==
  /\ pos = Len(rxd)
  /\ Len(call_frames) = 2
  /\ Len(call_frames[2]) = UART_BUF_SIZE
  /\ call_frames[2][UART_BUF_SIZE] = LF

\* C9: peer data '*' dd ... with dd in [0, count()) is sent, without the
\* prefix, to peer dd and to no other peer, whatever its length; with dd = 99
\* every connected peer is sent the bytes after the prefix.
BytesTo(id) ==
  Flatten([k \in 1..Len(cb_sends) |->
             IF cb_sends[k].id = id THEN cb_sends[k].bytes ELSE <<>>])
AfterPrefix(data) ==
  SubSeq(data, 4, Len(data)) \o (IF EndsWithCR(data) THEN <<LF>> ELSE <<>>)
C9_PeerDataRoutedAsAddressed ==
  pc["cb"] = "done" /\ ~oom /\ HasId(rxd)
    => /\ IdIn(rxd) < bt_conn_ctx_count(ctx)
          => /\ \A k \in 1..Len(cb_sends) : cb_sends[k].id = IdIn(rxd)
             /\ BytesTo(IdIn(rxd)) = AfterPrefix(rxd)
       /\ IdIn(rxd) = BROADCAST_INDEX
          => \A s \in UsedSlots(ctx) : BytesTo(s) = AfterPrefix(rxd)

\* ------------------------------------------------ claims: serial receive
\* The bytes of the receive frame that has been reported but not yet pushed.
RxUnpushed == {f \in RxIds : rxf[f].live /\ rxf[f].puts = 0 /\ rxf[f].len > 0}
RxPending == IF RxUnpushed = {} THEN <<>> ELSE FrameBytes(Min(RxUnpushed))

\* C8: every byte the driver has reported with UART_RX_RDY appears exactly
\* once, in arrival order, in the frames pushed onto fifo_uart_rx_data (the
\* bytes of the frame still being filled follow them), and a frame that
\* reaches UART_BUF_SIZE bytes is pushed once with that length.
C8_EveryByteOnceInOrder ==
  /\ delivered = Flatten(pushed) \o RxPending
  /\ \A f \in RxIds : rxf[f].live => rxf[f].puts <= 1
  /\ \A f \in RxIds : rxf[f].live /\ rxf[f].len = UART_BUF_SIZE => rxf[f].puts = 1


\* ------------------------------------------------- claims: the registry
\* C11: a connection reported while the registry is full gets no entry,
\* count() stays within the maximum, and the connect handler uses no
\* send-context for it.
C11_FullRegistryRejects ==
  /\ bt_conn_ctx_count(ctx) <= MaxConn
  /\ null_ctx = "none"

\* C18: the id message sent to a connected peer carries the id under which
\* bt_conn_ctx_get_by_id returns that peer, never the broadcast sentinel.
C18_IdMessageIsLookupId ==
  \A conn \in Connected(ctx) :
    id_msg[conn] # <<>> =>
      /\ atoi(id_msg[conn]) = IdOf(ctx, conn)
      /\ atoi(id_msg[conn]) # BROADCAST_INDEX

\* --------------------------------------------------- claims: frame life
Range(q) == {q[k] : k \in 1..Len(q)}
\* Receive frames in use: received into, queued, or held by the main loop.
RxInUse == (Range(fifo_uart_rx_data) \cup {drv.cur, drv.next, main_buf}) \ {0}
\* Transmit frames in use: queued for the UART or being transmitted.
TxInUse == {f.seq : f \in Range(fifo_uart_tx_data) \cup ({uart_tx_buf} \ {NoFrame})}

\* C12: no frame is freed while it is received into, queued in
\* fifo_uart_rx_data or fifo_uart_tx_data, transmitted, or held by the main
\* loop before its one k_free: every frame in use is still allocated.
C12_FreedOnceAndNotInUse ==
  /\ \A f \in RxInUse : rxf[f].live
  /\ TxInUse \subseteq live

\* C13: uart_cb never changes the length of a receive frame it has pushed
\* onto fifo_uart_rx_data, and never pushes it a second time.
C13_PushedFrameUntouched ==
  [][\A f \in RxIds :
       rxf[f].puts >= 1 /\ rxf'[f].puts >= 1
         => rxf'[f].len = rxf[f].len /\ rxf'[f].puts = rxf[f].puts]_vars

\* ------------------------------------------------ claims: serial transmit
\* Frames whose transmission is over: all that were started but the running one.
DoneFrames == IF uart_tx_buf = NoFrame THEN wire ELSE SubSeq(wire, 1, Len(wire) - 1)
SentOfRunning == IF uart_tx_buf = NoFrame THEN <<>> ELSE SubSeq(uart_tx_buf.data, 1, tx_off)

\* C14: however often a frame's transfer is aborted, and after whatever
\* partial lengths, the transfers put the frame's bytes on the line once and
\* in order, resuming at aborted_len in the same frame; the frame stays
\* allocated until the final UART_TX_DONE, which frees it, clears
\* aborted_buf and aborted_len and starts the next queued frame.
C14_AbortResumesSameFrame ==
  /\ [](/\ Flatten(line) = Flatten(FramesData(DoneFrames)) \o SentOfRunning
        /\ aborted_buf # NoFrame => aborted_buf = uart_tx_buf /\ aborted_len = tx_off
        /\ aborted_buf = NoFrame => aborted_len = 0 /\ tx_off = 0
        /\ \A k \in 1..Len(DoneFrames) : DoneFrames[k].seq \notin live
        /\ uart_tx_buf # NoFrame => uart_tx_buf.seq \in live)
  /\ [][aborted_buf # NoFrame /\ aborted_buf' = NoFrame
          => /\ aborted_len' = 0
             /\ aborted_buf.seq \in live /\ aborted_buf.seq \notin live'
             /\ fifo_uart_tx_data # <<>>
                  => uart_tx_buf' = Head(fifo_uart_tx_data) /\ tx_off' = 0]_vars

\* A frame was sent in three transfers, two of them aborted after some
\* bytes, and the next queued frame is being transmitted.
C14_Witness ==
  /\ Len(wire) >= 2
  /\ uart_tx_buf = wire[2]
  /\ Len(line) >= 3
  /\ line[1] # <<>> /\ line[2] # <<>>
  /\ line[1] \o line[2] \o line[3] = wire[1].data
  /\ aborted_buf = NoFrame

\* ----------------------------------------- claims: reception re-enabled
\* Reception is disabled, no frame is free and the retry is scheduled.
C15_Witness == ~drv.on /\ RxFree = {} /\ uart_work

\* C15: whenever reception is disabled and a receive frame is free at some
\* later time, reception is eventually enabled again, in a frame of length 0.
C15_ReceptionResumes ==
  []((~drv.on /\ <>(RxFree # {})) => <>(drv.on /\ rxf[drv.cur].len = 0))

\* ------------------------------------------- claims: failures in the router
\* The call of multi_nus_send the main loop is in, and the step keeps it.
InBroadcast == pc["main"] \in {"route", "wait"} /\ rt["main"].broadcast
SameCall == pc'["main"] \in {"route", "wait", "ret"}
\* The peers the sends of the call went to, in the order issued.
IssuedIds == [k \in 1..Len(rt["main"].sends) |-> rt["main"].sends[k].id]

\* A broadcast returned in which a send failed and the next peer was sent to.
C16_Witness ==
  /\ Returned /\ rt["main"].broadcast
  /\ Len(rt["main"].sends) = 2
  /\ ~rt["main"].sends[1].ok

\* What a step of a broadcast call may do: a wait ends back in the loop
\* without moving the index; a send looks up index i, finds a peer and is
\* followed by its wait; a skip found none; the call returns at index N only.
BroadcastStep ==
  /\ rt'["main"].num_nus_conns = rt["main"].num_nus_conns
  /\ IF pc["main"] = "wait"
     THEN rt'["main"].i = rt["main"].i /\ pc'["main"] \in {"wait", "route"}
     ELSE IF pc'["main"] = "wait"
     THEN Lookup("main") >= 0 /\ rt'["main"].i = rt["main"].i + 1
     ELSE IF pc'["main"] = "ret"
     THEN rt["main"].i = rt["main"].num_nus_conns
     ELSE rt'["main"].i = rt["main"].i
          \/ (Lookup("main") < 0 /\ rt'["main"].i = rt["main"].i + 1)

\* In a broadcast the index stays within N and is N at the return; when no
\* peer came or went, the sends are the peers found below N, one each.
BroadcastState ==
  /\ (pc["main"] # "idle" /\ rt["main"].broadcast)
       => rt["main"].i <= rt["main"].num_nus_conns
  /\ (pc["main"] = "ret" /\ rt["main"].broadcast)
       => rt["main"].i = rt["main"].num_nus_conns
  /\ (Returned /\ rt["main"].broadcast)
       => (IssuedIds = NoMarkerTargets(rt["main"].reg0)
           /\ Len(rt["main"].sends) <= rt["main"].num_nus_conns)

\* C16: in a broadcast over count() = N every index below N is looked up,
\* whatever happened at the indices before it (no peer there, a send that
\* failed, a wait that timed out); a peer found is sent to and waited for
\* once, so the call returns after at most N sends and N waits.
C16_BroadcastSurvivesFailures ==
  []BroadcastState /\ [][(InBroadcast /\ SameCall) => BroadcastStep]_vars

\* The call is addressed to one peer and has not sent to it.
Addressed == ~rt["main"].broadcast /\ ~rt["main"].done
\* The call returned because the lookup of the addressed peer found none.
AddressedMiss == pc["main"] = "ret" /\ Addressed

\* An addressed frame whose id is below count() returned without a peer at it.
C17_Witness ==
  /\ AddressedMiss /\ rt["main"].stable
  /\ rt["main"].nus_index < rt["main"].num_nus_conns
  /\ rt["main"].reg0[rt["main"].nus_index] = NoConn

\* No send and no wait were made by a call that missed its peer, and the
\* main loop still holds the frame.
MissState ==
  AddressedMiss =>
    /\ rt["main"].target = -1 /\ ~rt["main"].accepted
    /\ rt["main"].sends = <<>>
    /\ rt["main"].i = 0
    /\ main_buf # 0 /\ rxf[main_buf].live
    /\ \A k \in 1..Len(fifo_uart_rx_data) : fifo_uart_rx_data[k] # main_buf

\* An addressed call stays addressed; it waits only after a lookup that found
\* the peer; when the lookup finds none it returns and changes neither the
\* completion signal nor any peer's write; the main loop then frees the frame.
MissStep ==
  /\ (pc["main"] = "route" /\ Addressed /\ SameCall)
       => /\ ~rt'["main"].broadcast
          /\ (pc'["main"] = "wait" => Lookup("main") >= 0)
          /\ (pc'["main"] = "ret" =>
                (Lookup("main") < 0 /\ rt' = rt /\ sem' = sem /\ inflight' = inflight))
  /\ (AddressedMiss /\ pc'["main"] # "ret")
       => (pc'["main"] = "idle" /\ ~rxf'[main_buf].live /\ main_buf' = 0)

\* C17: a frame addressed to an id below count() at which the lookup finds no
\* peer is sent to no peer, is not broadcast instead, is followed by no wait
\* for a completion, and is freed by the main loop like any other frame.
C17_MissedPeerDropsFrame == []MissState /\ [][MissStep]_vars

\* ------------------------------------------------ claims: the serial queue
\* No transfer is running and ble_data_received is not running: without
\* further peer data no UART_TX_DONE will come and no uart_tx will be called.
UartTxQuiet == pc["cb"] = "idle" /\ uart_tx_buf = NoFrame

\* C19: a frame put on fifo_uart_tx_data because uart_tx was busy is taken
\* from it by a later UART_TX_DONE and transmitted, however the failed
\* uart_tx and the k_fifo_put interleave with UART_TX_DONE: when the UART is
\* idle and no peer data is being handled, no frame is left in the queue.
C19_QueuedFrameIsTransmitted == UartTxQuiet => fifo_uart_tx_data = <<>>

\* ------------------------------------------------ claims: the send length
\* C20: for a frame of any length from 1 to 20, the length given to each send
\* is between 0 and the length of the frame, and a send that skips the three
\* prefix bytes was parsed from a frame that has them.
C20_SendLengthWithinFrame ==
  \A k \in 1..Len(rt["main"].sends) :
    /\ rt["main"].length >= 0
    /\ rt["main"].sends[k].len <= Len(Frame)
    /\ rt["main"].sends[k].message = 3 => Len(Frame) >= 3

====
